---- MODULE Spec2Model ----
(***************************************************************************)
(* A model of the Pushgateway stress-test generator                        *)
(* (Pushgateway testing/scripts/generator.py): the cycle scheduler of      *)
(* run_test, the bounded dispatch of run_cycle / push_with_jitter /        *)
(* push_single under one asyncio.Semaphore, the SIGINT/SIGTERM handler,    *)
(* the /metrics probe and the outcome log with its CSV writer.             *)
(*                                                                         *)
(* Wall-clock values (timestamp, latency_ms) are not part of the state;    *)
(* the time a cycle took (cycle_elapsed) is chosen by the environment in   *)
(* whole seconds, and so is the time the wait between two cycles has       *)
(* lasted (slept).  Strings whose content the code inspects or cuts are    *)
(* sequences of characters.  The pure functions compute_percentile and     *)
(* generate_node_identities are also checked on their own, as calls (call) *)
(* whose arguments range over bounded sets.                                *)
(***************************************************************************)
EXTENDS Integers, Sequences, FiniteSets, TLC

VARIABLES
    args,           \* the parsed command line (run_test's locals of lines 489-497)
    env,            \* what the network answers in this run (statuses, faults, timings)
    pc,             \* where run_test is
    cycle,          \* the loop variable of `for cycle in range(1, num_cycles + 1)`
    num_cycles,     \* line 595
    semaphore,      \* the value of asyncio.Semaphore(max_inflight): free permits
    stop_event,     \* asyncio.Event of line 584
    tasks,          \* the push_with_jitter coroutines that exist, in creation order
    all_results,    \* line 593
    probe_results,  \* line 594
    csv,            \* CSVWriter: the rows written and how many are flushed
    cycle_elapsed,  \* line 617
    wait_time,      \* line 640
    slept,          \* the whole seconds the wait of lines 642-645 has lasted
    report,         \* what print_final_report printed
    dispatched,     \* history: the cycle numbers run_cycle was called with
    call            \* a call of one of the module's pure functions, and its result

vars == <<args, env, pc, cycle, num_cycles, semaphore, stop_event, tasks,
          all_results, probe_results, csv, cycle_elapsed, wait_time, slept,
          report, dispatched, call>>

----------------------------------------------------------------------------
(* Bounds of the model. *)

MaxInterval == 1
MaxDuration == 2
MaxNodes == 1
MaxInflight == 2
MaxJitter == 1
MaxElapsed == 1
MaxOver == 1
MaxSamples == 4
MaxIdentities == 256
MaxScenarioNodes == 3

----------------------------------------------------------------------------
(* Small helpers. *)

Max(a, b) == IF a >= b THEN a ELSE b

Range(s) == {s[i] : i \in DOMAIN s}

\* Python's s[:n] on a sequence of characters.
Truncate(s, n) == SubSeq(s, 1, IF Len(s) <= n THEN Len(s) ELSE n)

----------------------------------------------------------------------------
(* The job catalog, lines 39-68. *)

NODE_LEVEL_JOBS ==
    << [name |-> "amd-gpu-exporter", file |-> "sample-amd-gpu-payload.txt",
        instance_type |-> "node-ip"],
       [name |-> "node-exporter", file |-> "sample-node-exporter-payload.txt",
        instance_type |-> "node-ip"],
       [name |-> "oci_lens_node_metrics", file |-> "payload-oci-lens-node.txt",
        instance_type |-> "node-name"],
       [name |-> "oci_lens_drhpc_metrics", file |-> "payload-oci-lens-drhpc.txt",
        instance_type |-> "node-name"] >>

CLUSTER_LEVEL_JOBS ==
    << [name |-> "oci_lens_pod_metrics", file |-> "payload-oci-lens-pod.txt",
        instance_type |-> "pod-name"] >>

\* --jobs: the words that select whole groups (lines 515-521).  A filter is
\* the list of its comma-separated, stripped parts.
KeywordFilters == { <<"all">>, <<"node">>, <<"cluster">>, <<"node+cluster">> }

SelectNodeJobs(jobs_filter) ==
    IF jobs_filter \in { <<"all">>, <<"node">>, <<"node+cluster">> }
    THEN NODE_LEVEL_JOBS
    ELSE IF jobs_filter \notin KeywordFilters
         THEN SelectSeq(NODE_LEVEL_JOBS, LAMBDA j : j.name \in Range(jobs_filter))
         ELSE << >>

SelectClusterJobs(jobs_filter) ==
    IF jobs_filter \in { <<"all">>, <<"cluster">>, <<"node+cluster">> }
    THEN CLUSTER_LEVEL_JOBS
    ELSE IF jobs_filter \notin KeywordFilters
         THEN SelectSeq(CLUSTER_LEVEL_JOBS, LAMBDA j : j.name \in Range(jobs_filter))
         ELSE << >>

----------------------------------------------------------------------------
(* generate_node_identities, lines 73-83. *)

DIGITS == << "0", "1", "2", "3", "4", "5", "6", "7", "8", "9" >>

\* f"{i}": the decimal digits of i, as characters.
RECURSIVE Digits(_)
Digits(i) ==
    IF i < 10 THEN << DIGITS[i + 1] >>
    ELSE Append(Digits(i \div 10), DIGITS[(i % 10) + 1])

\* f"{i:04d}": the digits of i, zero-padded to at least four.
Pad4(i) == [k \in 1..(4 - Len(Digits(i))) |-> "0"] \o Digits(i)

\* The mutant of NodeIdentity: every address in the first subnet.
NodeIdentityOneSubnet(i) ==
    [ node_ip   |-> << "10.0." >> \o Digits(10) \o << "." >>
                    \o Digits(1 + (i % 254)),
      node_name |-> << "stress-node-" >> \o Pad4(i) ]

\* lines 77-82: f"10.0.{subnet}.{host}" and f"stress-node-{i:04d}".
NodeIdentity(i) ==
    [ node_ip   |-> << "10.0." >> \o Digits(10 + (i \div 254)) \o << "." >>
                    \o Digits(1 + (i % 254)),
      node_name |-> << "stress-node-" >> \o Pad4(i) ]

generate_node_identities(n) == [k \in 1..n |-> NodeIdentity(k - 1)]

ClusterInstance == << "pod-node-mapper-stress-test" >>

----------------------------------------------------------------------------
(* The environment of a run: what session.post / resp.read / session.get   *)
(* answer.  An exception is the set of classes it is an instance of, among *)
(* those the except clauses of push_single name, and its str().            *)

Exc(bases, msg) == [bases |-> bases, msg |-> msg]

\* asyncio.TimeoutError, raised by the total=30 / connect=10 deadline.
TimeoutExc == Exc({"TimeoutError", "Exception"}, << >>)
\* aiohttp.ServerTimeoutError is a ClientError and a TimeoutError.
ServerTimeoutExc ==
    Exc({"TimeoutError", "ClientError", "Exception"}, << "r", "e", "a", "d" >>)
\* an aiohttp.ClientError whose str() is some text, and one whose str() is empty.
ClientExc(msg) == Exc({"ClientError", "Exception"}, msg)
\* any other Exception.
OtherExc(msg) == Exc({"Exception"}, msg)

SomeText == << "r", "e", "s", "e", "t" >>

\* A str() of n characters, no two neighbours alike.
Text(n) == [i \in 1..n |-> << "a", "b", "c" >>[(i % 3) + 1]]

----------------------------------------------------------------------------
(* push_single, lines 160-226. *)

CLIENT_ERROR_CHARS == 120
UNEXPECTED_CHARS == 100

TIMEOUT_LABEL == << "t", "i", "m", "e", "o", "u", "t" >>
UNEXPECTED_PREFIX == << "u", "n", "e", "x", "p", "e", "c", "t", "e", "d", ":", " " >>

PushResult(c, job, instance, status_code, error) ==
    [cycle |-> c, job |-> job, instance |-> instance,
     status_code |-> status_code, error |-> error]

\* The mutant of Handler: push_single without its last clause, `except Exception`.
HandlerNoExceptException(e) ==
    IF "TimeoutError" \in e.bases THEN "timeout"
    ELSE IF "ClientError" \in e.bases THEN "client"
    ELSE "uncaught"

\* The mutant of Handler: the aiohttp.ClientError clause written first.
HandlerClientFirst(e) ==
    IF "ClientError" \in e.bases THEN "client"
    ELSE IF "TimeoutError" \in e.bases THEN "timeout"
    ELSE IF "Exception" \in e.bases THEN "unexpected"
    ELSE "uncaught"

\* Which except clause of lines 191-226 takes exception e: the first that matches.
Handler(e) ==
    IF "TimeoutError" \in e.bases THEN "timeout"
    ELSE IF "ClientError" \in e.bases THEN "client"
    ELSE IF "Exception" \in e.bases THEN "unexpected"
    ELSE "uncaught"

\* The error label each clause gives (lines 201, 213, 225).
ErrorLabel(e) ==
    CASE Handler(e) = "timeout" -> TIMEOUT_LABEL
      [] Handler(e) = "client" -> Truncate(e.msg, CLIENT_ERROR_CHARS)
      [] OTHER -> UNEXPECTED_PREFIX \o Truncate(e.msg, UNEXPECTED_CHARS)

\* The mutant of SemaphoreExit: a release written after the request instead
\* of `async with`, so that an exception skips it.
SemaphoreExitOnReturnOnly(value, how) ==
    IF how = "return" THEN value + 1 ELSE value

\* Leaving `async with semaphore` (line 173), by return or by an exception:
\* Semaphore.__aexit__ releases the permit either way.
SemaphoreExit(value, how) == value + 1

\* The tasks that are between acquiring and releasing the semaphore.
InNetwork(ts) == {i \in DOMAIN ts : ts[i].pc \in {"post", "read"}}

\* push_with_jitter, lines 229-244: where a new coroutine first suspends.
FirstStep(jitter_max) == IF jitter_max > 0 THEN "jitter" ELSE "acquire"

NewTask(c, job, instance, jitter_max) ==
    [cycle |-> c, job |-> job, instance |-> instance,
     pc |-> FirstStep(jitter_max), status_code |-> 0, error |-> << >>]

\* The mutant of TaskJitter: the jitter sleep is taken inside
\* `async with semaphore`.
TaskJitterHoldingPermit(i) ==
    /\ tasks[i].pc = "jitter"
    /\ semaphore > 0
    /\ semaphore' = semaphore - 1
    /\ tasks' = [tasks EXCEPT ![i].pc = "post"]
    /\ UNCHANGED <<call, slept, args, env, pc, cycle, num_cycles, stop_event,
                   all_results, probe_results, csv, cycle_elapsed, wait_time,
                   report, dispatched>>

\* line 241: the jitter sleep of task i ends.
TaskJitter(i) ==
    /\ tasks[i].pc = "jitter"
    /\ tasks' = [tasks EXCEPT ![i].pc = "acquire"]
    /\ UNCHANGED <<call, slept, args, env, pc, cycle, num_cycles, semaphore, stop_event,
                   all_results, probe_results, csv, cycle_elapsed, wait_time,
                   report, dispatched>>

\* The mutant of TaskAcquire: the request is sent without waiting for a permit.
TaskAcquireUnguarded(i) ==
    /\ tasks[i].pc = "acquire"
    /\ semaphore' = semaphore - 1
    /\ tasks' = [tasks EXCEPT ![i].pc = "post"]
    /\ UNCHANGED <<call, slept, args, env, pc, cycle, num_cycles, stop_event,
                   all_results, probe_results, csv, cycle_elapsed, wait_time,
                   report, dispatched>>

\* line 173: task i enters `async with semaphore` when a permit is free.
TaskAcquire(i) ==
    /\ tasks[i].pc = "acquire"
    /\ semaphore > 0
    /\ semaphore' = semaphore - 1
    /\ tasks' = [tasks EXCEPT ![i].pc = "post"]
    /\ UNCHANGED <<call, slept, args, env, pc, cycle, num_cycles, stop_event,
                   all_results, probe_results, csv, cycle_elapsed, wait_time,
                   report, dispatched>>

\* lines 174-179: session.post answers with a status line.
TaskResponse(i) ==
    /\ tasks[i].pc = "post"
    /\ \E s \in env.statuses :
          tasks' = [tasks EXCEPT ![i].pc = "read", ![i].status_code = s]
    /\ UNCHANGED <<call, slept, args, env, pc, cycle, num_cycles, semaphore, stop_event,
                   all_results, probe_results, csv, cycle_elapsed, wait_time,
                   report, dispatched>>

\* lines 181-190: the body is drained and the PushResult returned.
TaskDrained(i) ==
    /\ tasks[i].pc = "read"
    /\ tasks' = [tasks EXCEPT ![i].pc = "done", ![i].error = << >>]
    /\ semaphore' = SemaphoreExit(semaphore, "return")
    /\ UNCHANGED <<call, slept, args, env, pc, cycle, num_cycles, stop_event,
                   all_results, probe_results, csv, cycle_elapsed, wait_time,
                   report, dispatched>>

\* session.post or resp.read raises: the semaphore is left, then the except
\* clauses of lines 191-226 build the PushResult; an exception none of them
\* takes leaves push_single.
TaskFault(i) ==
    /\ tasks[i].pc \in {"post", "read"}
    /\ tasks[i].cycle \in env.fault_cycles
    /\ \E e \in env.exceptions :
          tasks' = IF Handler(e) = "uncaught"
                   THEN [tasks EXCEPT ![i].pc = "raised"]
                   ELSE [tasks EXCEPT ![i].pc = "done",
                                      ![i].status_code = 0,
                                      ![i].error = ErrorLabel(e)]
    /\ semaphore' = SemaphoreExit(semaphore, "raise")
    /\ UNCHANGED <<call, slept, args, env, pc, cycle, num_cycles, stop_event,
                   all_results, probe_results, csv, cycle_elapsed, wait_time,
                   report, dispatched>>

----------------------------------------------------------------------------
(* run_cycle, lines 284-325. *)

\* line 537
pushes_per_cycle(node_jobs, num_nodes, cluster_jobs) ==
    (Len(node_jobs) * num_nodes) + Len(cluster_jobs)

\* The mutant of NodeTasks: every node-level push is addressed by node IP.
NodeTasksAlwaysIp(nodes, node_jobs, c, jitter_max) ==
    [k \in 1..(Len(nodes) * Len(node_jobs)) |->
        LET node == nodes[((k - 1) \div Len(node_jobs)) + 1]
            job  == node_jobs[((k - 1) % Len(node_jobs)) + 1]
        IN  NewTask(c, job.name, node.node_ip, jitter_max)]

\* lines 299-311: for node in nodes, for job in node_jobs.
NodeTasks(nodes, node_jobs, c, jitter_max) ==
    [k \in 1..(Len(nodes) * Len(node_jobs)) |->
        LET node == nodes[((k - 1) \div Len(node_jobs)) + 1]
            job  == node_jobs[((k - 1) % Len(node_jobs)) + 1]
            instance == IF job.instance_type = "node-ip"
                        THEN node.node_ip ELSE node.node_name
        IN  NewTask(c, job.name, instance, jitter_max)]

\* lines 314-322
ClusterTasks(cluster_jobs, c, jitter_max) ==
    [k \in 1..Len(cluster_jobs) |->
        NewTask(c, cluster_jobs[k].name, ClusterInstance, jitter_max)]

BuildTasks(a, c) ==
    NodeTasks(generate_node_identities(a.nodes), SelectNodeJobs(a.jobs),
              c, a.jitter)
    \o ClusterTasks(SelectClusterJobs(a.jobs), c, a.jitter)

\* The mutant of GatherDone: the batch is joined as soon as one task is done.
GatherFirstDone(ts) == \E i \in DOMAIN ts : ts[i].pc = "done"

\* line 324: asyncio.gather returns once every awaitable has returned.
GatherDone(ts) == \A i \in DOMAIN ts : ts[i].pc = "done"

\* line 324: gather passes on the first exception an awaitable raises.
GatherRaises(ts) == \E i \in DOMAIN ts : ts[i].pc = "raised"

\* The mutant of GatherResults: only the pushes that got an answer are kept.
GatherAnsweredOnly(ts) ==
    LET answered == SelectSeq(ts, LAMBDA t : t.status_code # 0)
    IN  [k \in 1..Len(answered) |->
            PushResult(answered[k].cycle, answered[k].job, answered[k].instance,
                       answered[k].status_code, answered[k].error)]

\* lines 324-325: one result per awaitable, in the order of the awaitables.
GatherResults(ts) ==
    [k \in 1..Len(ts) |->
        PushResult(ts[k].cycle, ts[k].job, ts[k].instance,
                   ts[k].status_code, ts[k].error)]

----------------------------------------------------------------------------
(* CSVWriter, lines 443-482, and the probe, lines 249-279. *)

PUSH_HEADER == << "timestamp", "cycle", "job", "instance", "status_code",
                  "latency_ms", "payload_bytes", "error" >>
PROBE_HEADER == << "timestamp", "cycle", "response_bytes", "response_time_ms",
                   "status_code", "error" >>

\* write_push / write_probe: the row of a record, without its clock columns.
PushRow(r) == << r.cycle, r.job, r.instance, r.status_code, r.error >>
ProbeRow(p) == << p.cycle, p.response_bytes, p.status_code, p.error >>

NoCsv == [push |-> << >>, probe |-> << >>, flushed_push |-> 0,
          flushed_probe |-> 0, closed |-> FALSE]

\* CSVWriter.__init__: both files opened and their header rows written.
OpenCsv == [NoCsv EXCEPT !.push = << PUSH_HEADER >>, !.probe = << PROBE_HEADER >>]

\* The mutant of WritePushes: write_push called after the loop, not in it.
WritePushesLastOnly(c, results) ==
    IF results = << >> THEN c
    ELSE [c EXCEPT !.push = Append(@, PushRow(results[Len(results)]))]

\* lines 620-622: write_push for each result of the cycle, in order.
WritePushes(c, results) ==
    [c EXCEPT !.push = @ \o [k \in 1..Len(results) |-> PushRow(results[k])]]

WriteProbe(c, p) == [c EXCEPT !.probe = Append(@, ProbeRow(p))]

Flush(c) == [c EXCEPT !.flushed_push = Len(c.push), !.flushed_probe = Len(c.probe)]

Close(c) == [Flush(c) EXCEPT !.closed = TRUE]

MetricsProbeResult(c, response_bytes, status_code, error) ==
    [cycle |-> c, response_bytes |-> response_bytes,
     status_code |-> status_code, error |-> error]

PROBE_EVERY == 5

\* The mutant of ProbeDue: no probe for the last cycle as such.
ProbeDueNoLast(c, n) == c = 1 \/ c % PROBE_EVERY = 0

\* line 628
ProbeDue(c, n) == c = 1 \/ c = n \/ c % PROBE_EVERY = 0

----------------------------------------------------------------------------
(* compute_percentile, lines 330-340.  p is a whole number of percent and   *)
(* the rank k is kept in hundredths, so that k, its floor and its ceiling   *)
(* are exact; the value returned is in hundredths of the samples' unit.     *)

PERCENT == 100

\* sorted(data): a new list in ascending order; data itself is left alone.
RECURSIVE Sorted(_)
Sorted(data) ==
    IF data = << >> THEN << >>
    ELSE LET x == Head(data)
             rest == Sorted(Tail(data))
         IN  SelectSeq(rest, LAMBDA y : y < x) \o << x >>
             \o SelectSeq(rest, LAMBDA y : y >= x)

\* The mutant of compute_percentile: the samples taken in the order given.
compute_percentile_unsorted(data, p) ==
    IF data = << >> THEN 0
    ELSE LET sorted_data == data
             k == (Len(sorted_data) - 1) * p
             f == k \div PERCENT
             c == (k + PERCENT - 1) \div PERCENT
         IN  IF f = c THEN PERCENT * sorted_data[f + 1]
             ELSE sorted_data[f + 1] * ((PERCENT * c) - k)
                  + sorted_data[c + 1] * (k - (PERCENT * f))

\* The mutant of compute_percentile: the two weights of line 340 exchanged.
compute_percentile_swapped(data, p) ==
    IF data = << >> THEN 0
    ELSE LET sorted_data == Sorted(data)
             k == (Len(sorted_data) - 1) * p
             f == k \div PERCENT
             c == (k + PERCENT - 1) \div PERCENT
         IN  IF f = c THEN PERCENT * sorted_data[f + 1]
             ELSE sorted_data[f + 1] * (k - (PERCENT * f))
                  + sorted_data[c + 1] * ((PERCENT * c) - k)

\* lines 330-340, with k = (len - 1) * p in hundredths, f = math.floor(k)
\* and c = math.ceil(k) as indexes.
compute_percentile(data, p) ==
    IF data = << >> THEN 0
    ELSE LET sorted_data == Sorted(data)
             k == (Len(sorted_data) - 1) * p
             f == k \div PERCENT
             c == (k + PERCENT - 1) \div PERCENT
         IN  IF f = c THEN PERCENT * sorted_data[f + 1]
             ELSE sorted_data[f + 1] * ((PERCENT * c) - k)
                  + sorted_data[c + 1] * (k - (PERCENT * f))

\* A call of a pure function: the arguments it was given, the list object
\* it was handed (data), and what it returned.
NoCall ==
    [fn |-> "none", given |-> << >>, data |-> << >>, p |-> 0, n |-> 0,
     ret |-> << >>, pc |-> "idle"]

PercentileCall(data, p) ==
    [NoCall EXCEPT !.fn = "compute_percentile", !.given = data, !.data = data,
                   !.p = p, !.pc = "called"]

IdentitiesCall(n) ==
    [NoCall EXCEPT !.fn = "generate_node_identities", !.n = n, !.pc = "called"]

\* compute_percentile(data, p) runs and returns.
ComputePercentile ==
    /\ call.fn = "compute_percentile" /\ call.pc = "called"
    /\ call' = [call EXCEPT !.ret = << compute_percentile(call.data, call.p) >>,
                            !.pc = "returned"]
    /\ UNCHANGED <<slept, args, env, pc, cycle, num_cycles, semaphore,
                   stop_event, tasks, all_results, probe_results, csv,
                   cycle_elapsed, wait_time, report, dispatched>>

\* generate_node_identities(n) runs and returns.
GenerateIdentities ==
    /\ call.fn = "generate_node_identities" /\ call.pc = "called"
    /\ call' = [call EXCEPT !.ret = generate_node_identities(call.n),
                            !.pc = "returned"]
    /\ UNCHANGED <<slept, args, env, pc, cycle, num_cycles, semaphore,
                   stop_event, tasks, all_results, probe_results, csv,
                   cycle_elapsed, wait_time, report, dispatched>>

----------------------------------------------------------------------------
(* run_test, lines 487-675. *)

\* The mutant of NumCycles: the count without its floor of one.
NumCyclesNoFloor(duration, interval) == duration \div interval

\* The mutant of NumCycles: a cycle counted at both ends of the duration.
NumCyclesInclusive(duration, interval) == (duration \div interval) + 1

\* line 595: max(1, duration // interval)
NumCycles(duration, interval) == Max(1, duration \div interval)

\* The mutant of LoopBreak: the loop never looks at stop_event.
LoopBreakNever(stop) == FALSE

\* line 604
LoopBreak(stop) == stop

\* The mutant of WaitNext: the wait is entered whatever stop_event says.
WaitNextIgnoringStop(c, n, stop) == c < n

\* line 639
WaitNext(c, n, stop) == c < n /\ ~stop

\* The mutant of WaitTime: the whole interval, whatever the cycle took.
WaitTimeWholeInterval(interval, elapsed) == interval

\* line 640
WaitTime(interval, elapsed) == Max(0, interval - elapsed)

Terminal == {"stopped", "exited", "crashed"}

\* load_payloads, lines 88-99: some job's payload file does not exist.
PayloadMissing(jobs, missing) == \E k \in DOMAIN jobs : jobs[k].file \in missing

\* lines 489-600: job selection, the CSV files, the semaphore, the signal
\* handlers and the planned number of cycles.
Startup ==
    /\ pc = "startup"
    /\ IF SelectNodeJobs(args.jobs) \o SelectClusterJobs(args.jobs) = << >>
       THEN \* lines 531-533: sys.exit(1)
            /\ pc' = "exited"
            /\ UNCHANGED <<csv, semaphore, num_cycles>>
       ELSE IF PayloadMissing(SelectNodeJobs(args.jobs)
                              \o SelectClusterJobs(args.jobs), env.missing)
       THEN \* line 549, lines 93-95: sys.exit(1)
            /\ pc' = "exited"
            /\ UNCHANGED <<csv, semaphore, num_cycles>>
       ELSE /\ csv' = OpenCsv
            /\ semaphore' = args.max_inflight
            /\ IF args.interval = 0
               THEN \* line 595 raises ZeroDivisionError
                    /\ pc' = "crashed"
                    /\ UNCHANGED num_cycles
               ELSE /\ num_cycles' = NumCycles(args.duration, args.interval)
                    /\ pc' = "loop_top"
    /\ UNCHANGED <<call, slept, args, env, cycle, stop_event, tasks, all_results,
                   probe_results, cycle_elapsed, wait_time, report, dispatched>>

\* lines 603-615: the next value of the loop variable, the stop check, and
\* run_cycle creating this cycle's coroutines.
LoopTop ==
    /\ pc = "loop_top"
    /\ IF cycle + 1 > num_cycles
       THEN /\ pc' = "finalize"
            /\ UNCHANGED <<cycle, tasks, dispatched>>
       ELSE /\ cycle' = cycle + 1
            /\ IF LoopBreak(stop_event)
               THEN /\ pc' = "finalize"
                    /\ UNCHANGED <<tasks, dispatched>>
               ELSE /\ pc' = "gather"
                    /\ tasks' = tasks \o BuildTasks(args, cycle + 1)
                    /\ dispatched' = Append(dispatched, cycle + 1)
    /\ UNCHANGED <<call, slept, args, env, num_cycles, semaphore, stop_event, all_results,
                   probe_results, csv, cycle_elapsed, wait_time, report>>

\* lines 636-647: the flush, then the wait for the next cycle or straight on.
EndOfIteration(csv_now, elapsed) ==
    /\ csv' = Flush(csv_now)
    /\ IF WaitNext(cycle, num_cycles, stop_event)
       THEN /\ wait_time' = WaitTime(args.interval, elapsed)
            /\ pc' = IF wait_time' > 0 THEN "sleep" ELSE "loop_top"
       ELSE /\ pc' = "loop_top"
            /\ UNCHANGED wait_time

\* lines 611-636: run_cycle returns, the results are logged, and the probe
\* is started when it is due.
Gather ==
    /\ pc = "gather"
    /\ LET ts == SelectSeq(tasks, LAMBDA t : t.cycle = cycle)
       IN  IF GatherRaises(ts)
           THEN \* the exception leaves run_cycle, run_test and asyncio.run
                /\ pc' = "crashed"
                /\ UNCHANGED <<tasks, all_results, csv, cycle_elapsed, wait_time>>
           ELSE /\ GatherDone(ts)
                /\ tasks' = SelectSeq(tasks, LAMBDA t : t.pc # "done")
                /\ all_results' = all_results \o GatherResults(ts)
                /\ \E elapsed \in env.elapsed :
                      /\ cycle_elapsed' = elapsed
                      /\ IF ProbeDue(cycle, num_cycles)
                         THEN /\ pc' = "probe"
                              /\ csv' = WritePushes(csv, GatherResults(ts))
                              /\ UNCHANGED wait_time
                         ELSE EndOfIteration(WritePushes(csv, GatherResults(ts)),
                                             elapsed)
    /\ UNCHANGED <<call, slept, args, env, cycle, num_cycles, semaphore, stop_event,
                   probe_results, report, dispatched>>

\* lines 629-647: the probe answers (or fails), is logged, and the iteration ends.
Probe ==
    /\ pc = "probe"
    /\ \E p \in {MetricsProbeResult(cycle, b, 200, << >>) : b \in env.probe_sizes}
              \cup {MetricsProbeResult(cycle, 0, 0, Truncate(e.msg, CLIENT_ERROR_CHARS)) :
                       e \in IF cycle \in env.fault_cycles
                             THEN env.exceptions ELSE {}} :
          /\ probe_results' = Append(probe_results, p)
          /\ EndOfIteration(WriteProbe(csv, p), cycle_elapsed)
    /\ UNCHANGED <<call, slept, args, env, cycle, num_cycles, semaphore, stop_event, tasks,
                   all_results, cycle_elapsed, report, dispatched>>

\* lines 642-645: one more second of the wait passes.  handle_signal is
\* installed with signal.signal (lines 590-591), not loop.add_signal_handler:
\* it runs inside the event loop's select() call, stop_event.set() only
\* queues the wake-up of the waiter, and select() is resumed with the rest of
\* its timeout.  So the wait can go on although stop_event is set.
SleepTick ==
    /\ pc = "sleep"
    /\ slept < wait_time
    /\ slept' = slept + 1
    /\ UNCHANGED <<call, args, env, pc, cycle, num_cycles, semaphore, stop_event,
                   tasks, all_results, probe_results, csv, cycle_elapsed,
                   wait_time, report, dispatched>>

\* lines 643-647: the wait ends because wait_time has passed.
SleepTimeout ==
    /\ pc = "sleep"
    /\ slept = wait_time
    /\ pc' = "loop_top"
    /\ slept' = 0
    /\ UNCHANGED <<call, args, env, cycle, num_cycles, semaphore, stop_event,
                   tasks, all_results, probe_results, csv, cycle_elapsed,
                   wait_time, report, dispatched>>

\* The mutant of SleepInterrupted: the event is cleared once it woke the wait.
SleepInterruptedClearing ==
    /\ pc = "sleep"
    /\ stop_event
    /\ pc' = "loop_top"
    /\ slept' = 0
    /\ stop_event' = FALSE
    /\ UNCHANGED <<call, args, env, cycle, num_cycles, semaphore,
                   tasks, all_results, probe_results, csv, cycle_elapsed,
                   wait_time, report, dispatched>>

\* lines 643-645: the wait ends because stop_event.wait() returned: the
\* event is set and the event loop ran the queued wake-up (the signal came
\* while the loop was running callbacks, or something else ended select()).
SleepInterrupted ==
    /\ pc = "sleep"
    /\ stop_event
    /\ pc' = "loop_top"
    /\ slept' = 0
    /\ UNCHANGED <<call, args, env, cycle, num_cycles, semaphore, stop_event,
                   tasks, all_results, probe_results, csv, cycle_elapsed,
                   wait_time, report, dispatched>>

IsSuccess(r) == 200 <= r.status_code /\ r.status_code < 300

\* f"{growth:.2f}" of line 436: the quotient a / b in hundredths, rounded.
Hundredths(a, b) == ((200 * a) + b) \div (2 * b)

\* lines 423-436: the growth line of the report, if it is printed.
Growth(probes) ==
    IF /\ Len(probes) >= 2
       /\ probes[1].response_bytes > 0
       /\ probes[Len(probes)].response_bytes > 0
    THEN << Hundredths(probes[Len(probes)].response_bytes,
                       probes[1].response_bytes) >>
    ELSE << >>

\* lines 402-404 and 423-436 of print_final_report
FinalReport(results, probes) ==
    [printed |-> TRUE,
     total |-> Len(results),
     ok |-> Len(SelectSeq(results, IsSuccess)),
     fail |-> Len(results) - Len(SelectSeq(results, IsSuccess)),
     growth |-> Growth(probes)]

NoReport ==
    [printed |-> FALSE, total |-> 0, ok |-> 0, fail |-> 0, growth |-> << >>]

\* lines 649-675
Finalize ==
    /\ pc = "finalize"
    /\ csv' = Close(csv)
    /\ report' = FinalReport(all_results, probe_results)
    /\ pc' = "stopped"
    /\ UNCHANGED <<call, slept, args, env, cycle, num_cycles, semaphore, stop_event, tasks,
                   all_results, probe_results, cycle_elapsed, wait_time,
                   dispatched>>

\* handle_signal, lines 586-591: SIGINT or SIGTERM is delivered while the
\* handlers are installed and the process runs.
Signal ==
    /\ pc \notin Terminal \cup {"startup"}
    /\ stop_event' = TRUE
    /\ UNCHANGED <<call, slept, args, env, pc, cycle, num_cycles, semaphore, tasks,
                   all_results, probe_results, csv, cycle_elapsed, wait_time,
                   report, dispatched>>

----------------------------------------------------------------------------
(* The runs that are checked. *)

Args(interval, duration, jitter, max_inflight, nodes, jobs) ==
    [interval |-> interval, duration |-> duration, jitter |-> jitter,
     max_inflight |-> max_inflight, nodes |-> nodes, jobs |-> jobs]

Env(statuses, exceptions, fault_cycles, elapsed, probe_sizes, missing) ==
    [statuses |-> statuses, exceptions |-> exceptions,
     fault_cycles |-> fault_cycles, elapsed |-> elapsed,
     probe_sizes |-> probe_sizes, missing |-> missing]

\* --jobs values: one cluster group, one node group, a node and a cluster
\* group by name, and a name no job has.
JobFilters ==
    { << "cluster" >>, << "node-exporter" >>,
      << "oci_lens_node_metrics", "oci_lens_pod_metrics" >>, << "bogus" >> }

MainArgs ==
    { Args(i, d, j, m, n, f) :
        i \in 0..MaxInterval, d \in {0, MaxDuration}, j \in {0, MaxJitter},
        m \in 1..MaxInflight, n \in 0..MaxNodes, f \in JobFilters }

\* What the network does in one run: the statuses it answers with, the
\* exceptions it raises and the cycles in which it raises them, the time a
\* cycle takes, and the size of the /metrics body.
MainEnvs ==
    { Env(st, ex, fc, {0, MaxElapsed}, {100}, {}) :
        fc \in { {1}, {2} },
        <<st, ex>> \in { << {200}, {TimeoutExc} >>,
                        << {503}, {ClientExc(<< >>)} >>,
                        << {200}, {ClientExc(SomeText)} >>,
                        << {204}, {OtherExc(SomeText)} >> } }

\* Runs in which two payload files are not in the payloads directory.
MissingPayloadEnvs ==
    { Env({200}, {TimeoutExc}, {1}, {0}, {100},
          {"sample-node-exporter-payload.txt", "payload-oci-lens-pod.txt"}) }

\* Runs that are long enough for ten cycles and more: a duration below the
\* interval, twice and ten times the interval, and one second more.
CadenceArgs ==
    UNION { { Args(i, d, MaxJitter, 1, 1, << "node-exporter" >>) :
                d \in {i - 1, 2 * i, 10 * i, 10 * i + 1} } : i \in 1..MaxInterval }

CadenceEnvs == { Env({200}, {TimeoutExc}, {1}, {0, MaxElapsed}, {100, 250}, {}) }

\* Runs of two cycles with one push each, whose first cycle fails with one
\* exception: of each class the except clauses tell apart, with a str() that
\* is empty, short, or as long as or longer than the cuts of lines 213 and 225.
ClassifyArgs ==
    { Args(MaxInterval, 2 * MaxInterval, MaxJitter, 1, 1, << "node-exporter" >>) }

TextLengths ==
    { 0, 1, UNEXPECTED_CHARS, UNEXPECTED_CHARS + MaxOver,
      CLIENT_ERROR_CHARS, CLIENT_ERROR_CHARS + MaxOver }

ClassifyExceptions ==
    { Exc(b, Text(n)) :
        b \in { {"TimeoutError", "Exception"},
                {"TimeoutError", "ClientError", "Exception"},
                {"ClientError", "Exception"},
                {"Exception"} },
        n \in TextLengths }

ClassifyEnvs ==
    { Env({200}, {e}, {1}, {0}, {100}, {}) : e \in ClassifyExceptions }

ProgramInit(a, e) ==
    /\ args = a
    /\ env = e
    /\ pc = "startup"
    /\ cycle = 0
    /\ num_cycles = 0
    /\ semaphore = 0
    /\ stop_event = FALSE
    /\ tasks = << >>
    /\ all_results = << >>
    /\ probe_results = << >>
    /\ csv = NoCsv
    /\ cycle_elapsed = 0
    /\ wait_time = 0
    /\ slept = 0
    /\ report = NoReport
    /\ dispatched = << >>

InitState(a, e) == ProgramInit(a, e) /\ call = NoCall

Init == \E a \in MainArgs, e \in MainEnvs \cup MissingPayloadEnvs : InitState(a, e)

\* Scenario runs: one cycle of one node-level group on MaxScenarioNodes nodes
\* (addressed by node IP) with ten permits and no jitter; and three cycles
\* of a node-level group addressed by node name and the cluster-level group
\* with one permit and jitter, whose cycles take less than the interval, the
\* interval, or more.
ScenarioArgs ==
    { Args(MaxInterval, MaxInterval, 0, 10, MaxScenarioNodes, << "node-exporter" >>),
      Args(MaxInterval + 1, 3 * (MaxInterval + 1), MaxJitter, 1, MaxNodes,
           << "oci_lens_node_metrics", "oci_lens_pod_metrics" >>) }

ScenarioEnvs ==
    { Env({200}, {TimeoutExc}, {1}, 0..(MaxInterval + 2), {100}, {}) }

\* Runs of two planned cycles of two pushes whose semaphore is created with
\* no permit or with one.
LiveArgs ==
    { Args(MaxInterval, 2 * MaxInterval, j, m, MaxNodes,
           << "oci_lens_node_metrics", "oci_lens_pod_metrics" >>) :
        j \in {0, MaxJitter}, m \in {0, 1} }

LiveEnvs ==
    { Env({200}, {TimeoutExc}, {1}, {0, MaxElapsed}, {100}, {}) }

InitLive == \E a \in LiveArgs, e \in LiveEnvs : InitState(a, e)

InitScenario == \E a \in ScenarioArgs, e \in ScenarioEnvs : InitState(a, e)

InitClassify == \E a \in ClassifyArgs, e \in ClassifyEnvs : InitState(a, e)

\* The calls of the pure functions that are checked: compute_percentile on
\* every list of up to MaxSamples samples, generate_node_identities on every
\* count up to MaxIdentities (the second subnet starts at node 254).
Samples == {10, 20, 30, 40}

SampleLists == UNION { [1..n -> Samples] : n \in 0..MaxSamples }

Percentiles == {0, 1, 25, 50, 75, 95, 99, 100}

PureCalls ==
    { PercentileCall(d, p) : d \in SampleLists, p \in Percentiles }
    \cup { IdentitiesCall(n) : n \in 0..MaxIdentities }

\* No run of run_test: only the call is made.
InitPure ==
    /\ ProgramInit(Args(1, 0, 0, 1, 0, << "all" >>), Env({}, {}, {}, {}, {}, {}))
    /\ call \in PureCalls

NextPure ==
    \/ ComputePercentile
    \/ GenerateIdentities

InitCadence == \E a \in CadenceArgs, e \in CadenceEnvs : InitState(a, e)

Next ==
    \/ Startup
    \/ LoopTop
    \/ \E i \in DOMAIN tasks : TaskJitter(i)
    \/ \E i \in DOMAIN tasks : TaskAcquire(i)
    \/ \E i \in DOMAIN tasks : TaskResponse(i)
    \/ \E i \in DOMAIN tasks : TaskDrained(i)
    \/ \E i \in DOMAIN tasks : TaskFault(i)
    \/ Gather
    \/ Probe
    \/ SleepTick
    \/ SleepTimeout
    \/ SleepInterrupted
    \/ Finalize
    \/ Signal

Spec == Init /\ [][Next]_vars

SpecCadence == InitCadence /\ [][Next]_vars

SpecClassify == InitClassify /\ [][Next]_vars

SpecPure == InitPure /\ [][NextPure]_vars

SpecScenario == InitScenario /\ [][Next]_vars

\* The steps of run_test's own coroutine, of the push coroutines, and of the
\* timer of the wait between cycles.
SchedulerStep == Startup \/ LoopTop \/ Gather \/ Probe \/ Finalize

TaskStep ==
    \E i \in DOMAIN tasks :
        \/ TaskJitter(i)
        \/ TaskAcquire(i)
        \/ TaskResponse(i)
        \/ TaskDrained(i)
        \/ TaskFault(i)

SleepStep == SleepTick \/ SleepTimeout \/ SleepInterrupted

\* The event loop of asyncio.run resumes a coroutine that can go on, every
\* request and probe ends within its ClientTimeout (by an answer or by an
\* exception), and asyncio.sleep and wait_for end when their time is up.
\* Nothing obliges a signal to arrive.
Fairness ==
    /\ WF_vars(SchedulerStep)
    /\ WF_vars(TaskStep)
    /\ WF_vars(SleepStep)

SpecLive == InitLive /\ [][Next]_vars /\ Fairness

----------------------------------------------------------------------------
(* What is checked. *)

\* The pushes one cycle of this run issues (line 537).
PerCycle ==
    pushes_per_cycle(SelectNodeJobs(args.jobs), args.nodes,
                     SelectClusterJobs(args.jobs))

\* The logged outcomes of cycle k, and its rows in the pushes CSV.
LoggedOf(k) == SelectSeq(all_results, LAMBDA r : r.cycle = k)
RowsOf(k) == SelectSeq(Tail(csv.push), LAMBDA row : row[1] = k)

\* The semaphore and the handlers exist.
Started == pc \notin {"startup", "exited"}

\* C1: in every reachable state at most max_inflight push tasks are between
\* acquiring and releasing the semaphore, and the one semaphore of the run
\* keeps a value between 0 and max_inflight through all cycles.
C1_InflightBounded ==
    /\ Cardinality(InNetwork(tasks)) <= args.max_inflight
    /\ Started => semaphore \in 0..args.max_inflight

\* C1's case: in the second cycle every permit is taken and a task waits.
C1_Witness ==
    /\ cycle = 2
    /\ Cardinality(InNetwork(tasks)) = args.max_inflight
    /\ \E i \in DOMAIN tasks : tasks[i].pc = "acquire"

\* C2: run_cycle returns exactly one PushResult per task it created, in the
\* order of the tasks, and only once all of them are done: while cycle k is
\* being gathered nothing of cycle k is in the log or the CSV, and once it is
\* logged no task of it is left.
C2_OneResultPerTask ==
    \A n \in DOMAIN dispatched :
        LET k == dispatched[n]
            logged == LoggedOf(k)
            created == BuildTasks(args, k)
        IN  IF pc = "gather" /\ k = cycle
            THEN logged = << >> /\ RowsOf(k) = << >>
            ELSE /\ Len(logged) = PerCycle
                 /\ Len(RowsOf(k)) = PerCycle
                 /\ \A i \in 1..PerCycle :
                       /\ logged[i].job = created[i].job
                       /\ logged[i].instance = created[i].instance
                 /\ \A i \in DOMAIN tasks : tasks[i].cycle # k

\* C2's case: in the second cycle one task has failed, another is pending,
\* and the log holds the first cycle only.
C2_Witness ==
    /\ pc = "gather" /\ cycle = 2
    /\ \E i, j \in DOMAIN tasks :
          /\ tasks[i].pc = "done" /\ tasks[i].status_code = 0
          /\ tasks[j].pc # "done"
    /\ all_results # << >>

\* C3: cycles run strictly one after the other: they are dispatched as
\* 1, 2, 3, ..., and the only tasks that exist are those of the cycle whose
\* gather is pending.
C3_CyclesInSequence ==
    /\ \A n \in DOMAIN dispatched : dispatched[n] = n
    /\ \A i \in DOMAIN tasks : pc = "gather" /\ tasks[i].cycle = cycle

\* C3's case: the first cycle took the whole interval and the second has
\* tasks in flight.
C3_Witness ==
    /\ pc = "gather" /\ cycle = 2
    /\ cycle_elapsed >= args.interval
    /\ \E i \in DOMAIN tasks : tasks[i].pc \in {"post", "read"}

\* The log is the outcomes of cycles 1..k, all of them and no others.
ExactlyCycles(k) ==
    /\ Len(all_results) = k * PerCycle
    /\ \A j \in 1..k : LoggedOf(j) = SubSeq(all_results, (j - 1) * PerCycle + 1,
                                            j * PerCycle)
    /\ dispatched = [n \in 1..k |-> n]

\* C4: the wait after cycle k is entered with exactly the outcomes of cycles
\* 1..k logged, and once a stop is requested there (or has been when the
\* wait ends) no cycle starts any more and the log stays as it is up to
\* the end of the run.
C4_StopWhileSleeping ==
    /\ [](pc = "sleep" => ExactlyCycles(cycle))
    /\ [][(stop_event /\ pc \in {"sleep", "loop_top", "finalize", "stopped"})
            => /\ pc' \in {"loop_top", "finalize", "stopped"}
                    \/ (pc = "sleep" /\ pc' = "sleep")
               /\ dispatched' = dispatched
               /\ all_results' = all_results
               /\ csv'.push = csv.push]_vars

\* C4's case: the run ended by a stop after the wait that followed cycle 1.
C4_Witness ==
    /\ pc = "stopped" /\ stop_event
    /\ wait_time > 0
    /\ dispatched = << 1 >> /\ num_cycles > 1
    /\ all_results # << >>

\* C5: a stop request delivered while a cycle is gathered cancels nothing:
\* the tasks stay until all are done and one outcome per task is logged; and
\* after a stop request the wait is never entered and no cycle is dispatched.
C5_StopInFlight ==
    /\ [][(stop_event' /\ pc = "gather")
            => \/ pc' = "gather" /\ Len(tasks') = Len(tasks)
               \/ /\ pc' \in {"probe", "loop_top"}
                  /\ \A i \in DOMAIN tasks : tasks[i].pc = "done"
                  /\ Len(all_results') = Len(all_results) + Len(tasks)]_vars
    /\ [][stop_event => /\ pc # "sleep" => pc' # "sleep"
                        /\ dispatched' = dispatched]_vars

\* C5's case: a stop has been requested, one push of the cycle is in its
\* network call and another has not started, and more cycles were planned.
C5_Witness ==
    /\ pc = "gather" /\ stop_event
    /\ cycle < num_cycles
    /\ \E i, j \in DOMAIN tasks :
          tasks[i].pc \in {"post", "read"} /\ tasks[j].pc \in {"jitter", "acquire"}

\* C6: num_cycles is max(1, floor(duration / interval)), and a run that ends
\* without a stop request has dispatched exactly the cycles 1..num_cycles:
\* one when duration < interval, ten when duration = 10 * interval.
C6_PlannedCycles ==
    LET q == args.duration \div args.interval
        planned == IF q >= 1 THEN q ELSE 1
    IN  /\ pc \in {"loop_top", "gather", "probe", "sleep", "finalize", "stopped"}
            => num_cycles = planned
        /\ (pc = "stopped" /\ ~stop_event)
            => /\ dispatched = [n \in 1..planned |-> n]
               /\ args.duration < args.interval => Len(dispatched) = 1
               /\ args.duration = 10 * args.interval => Len(dispatched) = 10

\* C6's case: a run of ten intervals ended without a stop request.
C6_Witness ==
    /\ pc = "stopped" /\ ~stop_event
    /\ args.duration = 10 * args.interval
    /\ Len(dispatched) = 10

\* C7 as stated: every run that gets past startup runs at least one cycle.
C7_AlwaysOneCycle ==
    pc \in {"finalize", "stopped"} => Len(dispatched) >= 1

\* C7, amended: num_cycles is at least 1 whatever the duration, and a run
\* that gets past startup ends with cycle 1 dispatched and its outcomes
\* logged, unless a stop was requested before cycle 1 started, in which case
\* the loop breaks at its first check.
C7_OneCycleUnlessStopped ==
    /\ pc \in {"loop_top", "gather", "probe", "sleep", "finalize", "stopped"}
          => num_cycles >= 1
    /\ pc \in {"finalize", "stopped"}
          => \/ /\ Len(dispatched) >= 1 /\ dispatched[1] = 1
                /\ Len(LoggedOf(1)) = PerCycle
             \/ dispatched = << >> /\ stop_event /\ cycle = 1

\* C7's case: the duration is shorter than the interval and the run has
\* ended with the outcomes of cycle 1 logged.
C7_Witness ==
    /\ pc = "stopped"
    /\ args.duration < args.interval
    /\ dispatched = << 1 >>
    /\ all_results # << >>

\* C8: a failing push task ends as an outcome and nothing else: no task is
\* left with an exception, the run crashes only at startup, and a run that
\* ends without a stop request has dispatched its planned cycles, logged one
\* outcome per task of each, and printed the final report over all of them.
C8_FailuresIsolated ==
    LET q == args.duration \div args.interval
        planned == IF q >= 1 THEN q ELSE 1
    IN  /\ \A i \in DOMAIN tasks : tasks[i].pc # "raised"
        /\ pc = "crashed" => dispatched = << >> /\ args.interval = 0
        /\ (pc = "stopped" /\ ~stop_event)
            => /\ Len(dispatched) = planned
               /\ \A k \in 1..planned : Len(LoggedOf(k)) = PerCycle
               /\ report.printed
               /\ report.total = planned * PerCycle
               /\ report.ok + report.fail = report.total

\* C8's case: a two-cycle run without a stop request ended with its report,
\* and in one cycle one push failed and its sibling succeeded.
C8_Witness ==
    /\ pc = "stopped" /\ ~stop_event
    /\ Len(dispatched) = 2
    /\ report.printed /\ report.fail > 0
    /\ \E i, j \in DOMAIN all_results :
          /\ all_results[i].cycle = all_results[j].cycle
          /\ all_results[i].status_code = 0
          /\ all_results[j].status_code = 200

\* C9: the permits taken are exactly those of the tasks inside the network
\* section: every exit from it gives the permit back, so with no push in
\* flight all max_inflight permits are free.
C9_PermitsReturned ==
    Started => semaphore + Cardinality(InNetwork(tasks)) = args.max_inflight

\* C9's case: a push has failed, no push is in flight any more, and every
\* permit is free again.
C9_Witness ==
    /\ pc = "gather"
    /\ \E i \in DOMAIN tasks : tasks[i].pc = "done" /\ tasks[i].status_code = 0
    /\ InNetwork(tasks) = {}
    /\ semaphore = args.max_inflight

\* C10: every logged PushResult has status_code 0 if and only if its error
\* label is not empty.
C10_StatusZeroIffError ==
    \A i \in DOMAIN all_results :
        (all_results[i].status_code = 0) <=> (all_results[i].error # << >>)

----------------------------------------------------------------------------

\* s[:n], index by index.
Prefix(s, n) == [i \in 1..(IF Len(s) < n THEN Len(s) ELSE n) |-> s[i]]

\* C11: every logged outcome with status 0 carries the label of the first
\* matching class of the fault the run suffers: exactly "timeout" for a
\* timeout (also one that is a client error too); for any other client
\* error its description cut to at most 120 characters; for anything else
\* "unexpected: " and at most 100 characters of the description, which is
\* neither the timeout label nor what the client-error class would give.  An
\* outcome with another status has an empty label.
C11_FaultClasses ==
    \A i \in DOMAIN all_results :
        LET r == all_results[i]
        IN  IF r.status_code # 0
            THEN r.status_code \in env.statuses /\ r.error = << >>
            ELSE \E e \in env.exceptions :
                   IF "TimeoutError" \in e.bases
                   THEN r.error = << "t", "i", "m", "e", "o", "u", "t" >>
                   ELSE IF "ClientError" \in e.bases
                   THEN /\ r.error = Prefix(e.msg, 120)
                        /\ Len(r.error) <= 120
                   ELSE /\ Len(r.error) >= 12 /\ Len(r.error) <= 12 + 100
                        /\ SubSeq(r.error, 1, 12) = << "u", "n", "e", "x", "p",
                                 "e", "c", "t", "e", "d", ":", " " >>
                        /\ SubSeq(r.error, 13, Len(r.error)) = Prefix(e.msg, 100)
                        /\ r.error # << "t", "i", "m", "e", "o", "u", "t" >>
                        /\ r.error # Prefix(e.msg, 120)

\* C11's case: a client error that is no timeout and whose description is
\* longer than 120 characters has been logged with a label of 120.
C11_Witness ==
    /\ pc = "stopped"
    /\ \E i \in DOMAIN all_results, e \in env.exceptions :
          /\ all_results[i].status_code = 0
          /\ "ClientError" \in e.bases /\ "TimeoutError" \notin e.bases
          /\ Len(e.msg) > 120
          /\ Len(all_results[i].error) = 120

\* C12: once a stop is requested during the wait between two cycles, the
\* next thing to happen is the end of that wait: no more of wait_time passes.
C12_StopEndsSleep ==
    [][(pc = "sleep" /\ stop_event) => pc' # "sleep"]_vars

\* C13: stop_event is unset before the handlers are installed, a step that
\* changes it sets it and does nothing else, and once it is set every step
\* leaves it set (a further signal included).
C13_StopFlagMonotone ==
    /\ [](pc = "startup" => ~stop_event)
    /\ [][stop_event' # stop_event
            => /\ ~stop_event /\ stop_event'
               /\ pc' = pc /\ cycle' = cycle /\ tasks' = tasks
               /\ all_results' = all_results]_vars
    /\ [][stop_event => stop_event']_vars

\* C13's case: the flag was set during cycle 1, the wait and the loop's
\* check have been passed, and a further signal can still be delivered.
C13_Witness ==
    /\ stop_event /\ pc = "finalize"
    /\ Len(dispatched) = 1 /\ num_cycles > 1

\* How many probes the probe log has for cycle k.
ProbesOf(k) == Len(SelectSeq(probe_results, LAMBDA p : p.cycle = k))

\* The iteration of cycle k is over (its probe, if any, is logged).
IterationOver(k) ==
    k < cycle \/ (k = cycle /\ pc \in {"loop_top", "sleep", "finalize", "stopped"})

\* C14 as stated: when the run has ended, each cycle it ran has exactly one
\* probe if it is the first cycle, the last cycle that ran, or a multiple
\* of 5, and none otherwise.
C14_ProbeOnLastCycleRun ==
    pc = "stopped" =>
        \A n \in DOMAIN dispatched :
            LET k == dispatched[n]
            IN  ProbesOf(k) = IF \/ k = 1
                                 \/ k = dispatched[Len(dispatched)]
                                 \/ k % 5 = 0
                              THEN 1 ELSE 0

\* C14, amended: once the iteration of cycle k is over the probe log has
\* exactly one probe for k if k is 1, the planned last cycle num_cycles, or a
\* multiple of 5, and none otherwise; before that, and for cycles that were
\* not dispatched, it has none.
C14_ProbeCadence ==
    /\ \A n \in DOMAIN dispatched :
          LET k == dispatched[n]
          IN  ProbesOf(k) = IF /\ IterationOver(k)
                               /\ (k = 1 \/ k = num_cycles \/ k % 5 = 0)
                            THEN 1 ELSE 0
    /\ \A i \in DOMAIN probe_results : probe_results[i].cycle \in Range(dispatched)

\* C14's case: a run of eleven cycles ended without a stop request, probed
\* after cycles 1, 5, 10 and 11.
C14_Witness ==
    /\ pc = "stopped" /\ ~stop_event
    /\ num_cycles = 11
    /\ [i \in DOMAIN probe_results |-> probe_results[i].cycle] = << 1, 5, 10, 11 >>

\* C15: whenever the probe log of an ended run has at least two probes of
\* nonzero size, the report has a growth ratio, and it is the size of the
\* last probe over the size of the first (in hundredths).
C15_GrowthReported ==
    (/\ pc = "stopped"
     /\ Len(SelectSeq(probe_results, LAMBDA p : p.response_bytes > 0)) >= 2)
        => /\ report.growth # << >>
           /\ report.growth[1] * probe_results[1].response_bytes
                 = 100 * probe_results[Len(probe_results)].response_bytes

\* C16: no cycle is dispatched in a run whose cycles have no task, or for
\* one of whose jobs the payload file is missing.
C16_NoEmptyCycle ==
    dispatched # << >>
        => /\ PerCycle > 0
           /\ \A j \in Range(SelectNodeJobs(args.jobs))
                        \cup Range(SelectClusterJobs(args.jobs)) :
                 j.file \notin env.missing

\* C17: at every point of the run the rows written to the pushes CSV after
\* its header are the records of all_results, one each and in the same
\* order, and likewise the probes CSV and probe_results; and while a cycle
\* is dispatched or about to be, every record written so far is flushed.
C17_CsvFollowsLog ==
    Started =>
        /\ Len(csv.push) = Len(all_results) + 1
        /\ \A i \in DOMAIN all_results :
              csv.push[i + 1] = << all_results[i].cycle, all_results[i].job,
                                   all_results[i].instance,
                                   all_results[i].status_code,
                                   all_results[i].error >>
        /\ Len(csv.probe) = Len(probe_results) + 1
        /\ \A i \in DOMAIN probe_results :
              csv.probe[i + 1] = << probe_results[i].cycle,
                                    probe_results[i].response_bytes,
                                    probe_results[i].status_code,
                                    probe_results[i].error >>
        /\ (pc \in {"gather", "loop_top", "sleep"} /\ all_results # << >>)
              => /\ csv.flushed_push = Len(csv.push)
                 /\ csv.flushed_probe = Len(csv.probe)

\* C17's case: cycle 2 is being gathered, and the records of cycle 1 and its
\* probe are written and flushed.
C17_Witness ==
    /\ pc = "gather" /\ cycle = 2
    /\ Len(all_results) = 2
    /\ Len(csv.push) = 3 /\ csv.flushed_push = 3
    /\ Len(csv.probe) = 2 /\ csv.flushed_probe = 2

\* The sample at place j (from 0) of data in ascending order.
AtRank(data, j) ==
    CHOOSE v \in Range(data) :
        /\ Cardinality({i \in DOMAIN data : data[i] < v}) <= j
        /\ j < Cardinality({i \in DOMAIN data : data[i] <= v})

C20_DistinctIdentities ==
    (call.fn = "generate_node_identities" /\ call.pc = "returned") =>
        /\ Len(call.ret) = call.n
        /\ Cardinality({call.ret[i].node_ip : i \in DOMAIN call.ret}) = call.n
        /\ Cardinality({call.ret[i].node_name : i \in DOMAIN call.ret}) = call.n
        /\ call.n = 0 => call.ret = << >>

\* C20's case: more identities than one subnet of 254 hosts holds.
C20_Witness ==
    /\ call.fn = "generate_node_identities" /\ call.pc = "returned"
    /\ call.n > 254
    /\ Len(call.ret) = call.n

\* C21: the iteration of cycle k ends in the wait exactly when k is not the
\* last planned cycle, no stop is requested and run_cycle took less than
\* the interval; the wait is then for interval - cycle_elapsed seconds and,
\* unless a stop is requested, lasts that long; otherwise the loop goes on
\* at once, with cycle k + 1 if there is one.
C21_SleepIsRemainder ==
    /\ [][(pc \in {"gather", "probe"} /\ pc' \in {"sleep", "loop_top"})
            => /\ pc' = "sleep" <=> /\ cycle < num_cycles
                                    /\ ~stop_event
                                    /\ cycle_elapsed' < args.interval
               /\ pc' = "sleep" => /\ wait_time' = args.interval - cycle_elapsed'
                                   /\ slept' = 0]_vars
    /\ [][(pc = "sleep" /\ pc' # "sleep" /\ ~stop_event) => slept = wait_time]_vars
    /\ [][(pc = "loop_top" /\ pc' # "loop_top" /\ cycle < num_cycles /\ ~stop_event)
            => dispatched' = Append(dispatched, cycle + 1)]_vars

\* C21's case: the second cycle took longer than the interval and the third
\* was dispatched without a wait.
C21_Witness ==
    /\ pc = "gather" /\ cycle = 3 /\ ~stop_event
    /\ cycle_elapsed > args.interval
    /\ wait_time = 0
    /\ dispatched = << 1, 2, 3 >>

\* C22: a task in its jitter sleep holds no permit: the sleep comes before
\* the acquire, ends without touching the semaphore, and a permit is taken
\* only by a task that waits at the acquire, so the tasks in the network
\* section never exceed max_inflight however many sleep; with jitter 0 no
\* task sleeps, with jitter above 0 every task starts with the sleep; and
\* the outcome of a task is what the network call gave, sleep or not.
C22_JitterOutsidePermit ==
    /\ [](Started => /\ Cardinality(InNetwork(tasks)) <= args.max_inflight
                     /\ semaphore >= 0)
    /\ [](args.jitter = 0 => \A i \in DOMAIN tasks : tasks[i].pc # "jitter")
    /\ [][\A i \in DOMAIN tasks' :
            \/ /\ i \in DOMAIN tasks
               /\ tasks[i].cycle = tasks'[i].cycle
               /\ tasks[i].pc = "jitter" => /\ tasks'[i].pc \in {"jitter", "acquire"}
                                            /\ tasks'[i].pc = "acquire"
                                                  => semaphore' = semaphore
               /\ (tasks'[i].pc = "post" /\ tasks[i].pc # "post")
                     => tasks[i].pc = "acquire" /\ semaphore' = semaphore - 1
            \/ /\ pc = "loop_top"
               /\ tasks'[i].cycle = cycle + 1
               /\ tasks'[i].pc = (IF args.jitter > 0 THEN "jitter" ELSE "acquire")
               /\ semaphore' = semaphore]_vars
    /\ [](\A k \in DOMAIN all_results :
            \/ /\ all_results[k].status_code \in env.statuses
               /\ all_results[k].error = << >>
            \/ /\ all_results[k].status_code = 0
               /\ \E e \in env.exceptions : all_results[k].error = ErrorLabel(e))

\* C22's case: one task is in the network section with the only permit
\* while another is still in its jitter sleep.
C22_Witness ==
    /\ args.jitter > 0 /\ args.max_inflight = 1 /\ semaphore = 0
    /\ \E i, j \in DOMAIN tasks : tasks[i].pc = "jitter" /\ tasks[j].pc = "post"

\* The n-th block of PerCycle outcomes in the log.
Block(n) == SubSeq(all_results, (n - 1) * PerCycle + 1, n * PerCycle)

\* C23: every cycle k whose run_cycle has returned has added exactly
\* (node-level groups x nodes + cluster-level groups) outcomes to the log,
\* all carrying cycle k: one per node-level group and node, with the node's
\* IP or name as the group's instance_type says, and one per cluster-level
\* group with the fixed instance; their (group, instance) pairs are
\* pairwise distinct.
C23_OnePerGroupAndIdentity ==
    \A n \in DOMAIN dispatched :
        LET k == dispatched[n]
            node_jobs == SelectNodeJobs(args.jobs)
            cluster_jobs == SelectClusterJobs(args.jobs)
            count == Len(node_jobs) * args.nodes + Len(cluster_jobs)
            logged == Block(n)
        IN  IF pc = "gather" /\ k = cycle
            THEN Len(all_results) = (n - 1) * count
            ELSE /\ Len(all_results) >= n * count
                 /\ Len(logged) = count
                 /\ \A i \in DOMAIN all_results :
                       all_results[i].cycle = k
                          <=> i \in ((n - 1) * count + 1)..(n * count)
                 /\ Cardinality({ << logged[i].job, logged[i].instance >> :
                                     i \in DOMAIN logged }) = count
                 /\ \A g \in DOMAIN node_jobs : \A v \in 0..(args.nodes - 1) :
                       \E i \in DOMAIN logged :
                          /\ logged[i].job = node_jobs[g].name
                          /\ logged[i].instance =
                                IF node_jobs[g].instance_type = "node-ip"
                                THEN NodeIdentity(v).node_ip
                                ELSE NodeIdentity(v).node_name
                 /\ \A g \in DOMAIN cluster_jobs :
                       \E i \in DOMAIN logged :
                          /\ logged[i].job = cluster_jobs[g].name
                          /\ logged[i].instance = ClusterInstance

\* C23's case: the one cycle of one node-level group on MaxScenarioNodes
\* nodes is over: as many outcomes as nodes, all of that group, with
\* pairwise distinct instances.
C23_Witness ==
    /\ pc = "stopped" /\ ~stop_event
    /\ args.nodes = MaxScenarioNodes /\ num_cycles = 1
    /\ Len(all_results) = MaxScenarioNodes
    /\ \A i \in DOMAIN all_results : all_results[i].job = "node-exporter"
    /\ Cardinality({ all_results[i].instance : i \in DOMAIN all_results })
          = MaxScenarioNodes

\* C24: every run that enters the cycle loop ends in "stopped": without a
\* stop request after exactly num_cycles cycles, after a stop request
\* without dispatching a further cycle; the scheduler never waits for ever
\* for a permit, for gather or for the wait between cycles.
C24_EveryRunStops ==
    /\ (pc = "loop_top") ~> (pc = "stopped")
    /\ [](pc = "stopped" /\ ~stop_event => Len(dispatched) = num_cycles)
    /\ [][stop_event /\ pc # "startup" => dispatched' = dispatched]_vars

\* What does hold: a run whose semaphore has at least one permit and that
\* enters the cycle loop ends in "stopped".
StopsGivenAPermit ==
    (pc = "loop_top" /\ args.max_inflight >= 1) ~> (pc = "stopped")

====
